---- MODULE Spec2Model ----
(***************************************************************************)
(* A model of the tyray ray tracer: Scene::intersect and Scene::cast_ray   *)
(* (src/src/scene.rs), Sphere::intersect (src/src/primitives.rs,           *)
(* src/src/scene.rs, src/src/main.rs), Vector::refract                     *)
(* (src/src/geometry.rs) and the image driver of main (src/src/main.rs).   *)
(*                                                                         *)
(* Geometry that needs real arithmetic (normalisation, the position of a   *)
(* hit point, the Lambert and Phong terms) is not computed: what it feeds  *)
(* into the control flow, namely the Option<f64> every Object::intersect   *)
(* returns for a ray, the distance of a light and the two shading terms,   *)
(* is drawn nondeterministically from small sets, so every scene geometry  *)
(* is covered by some behaviour.                                           *)
(***************************************************************************)
EXTENDS Integers, Sequences, FiniteSets, TLC

VARIABLES
    scene,      \* cast_ray: the scene being rendered
    primary,    \* cast_ray: the depth argument of the primary call
    stack,      \* cast_ray: the activations of cast_ray, the primary call first
    last,       \* cast_ray: the call that returned in the last step
    probe,      \* Scene::intersect on its own: one scan
    sph,        \* Sphere::intersect on its own: a sphere, a ray, the result
    tone,       \* the tone-mapping of one colour
    img,        \* the image driver: the output grid and its units of work
    rfr,        \* Vector::refract on its own: the arguments and the result
    rays        \* the call tree of one primary cast_ray at the default depth

vars == <<scene, primary, stack, last, probe, sph, tone, img, rfr, rays>>

castVars == <<scene, primary, stack, last>>

\* The value of a variable in the specifications that do not use it.
Idle == "idle"

(***************************************************************************)
(* Bounds of the cast_ray model.                                           *)
(***************************************************************************)
MaxDepth == 1
MaxObjects == 2
MaxLights == 1
MaxDist == 1

(***************************************************************************)
(* Bounds of the models of Scene::intersect and Sphere::intersect taken on *)
(* their own.  Coordinates and radii are multiples of 1/Scale.             *)
(***************************************************************************)
MaxScan == 3
Scale == 2
MaxCoord == 4
MaxRadius == 4

(***************************************************************************)
(* Bounds of the model of Vector::refract.  Unit vectors have components   *)
(* that are multiples of 1/Norm; a refractive index is a fraction of two   *)
(* numbers up to MaxIndex.                                                 *)
(***************************************************************************)
Norm == 5
MaxIndex == 3

(***************************************************************************)
(* The tone-mapping model.  A channel is k / 2^shift with k a natural      *)
(* number: the first channel has k up to MaxChannel, the other two up to   *)
(* MaxMinor, and shift is up to MaxShift.  MantissaBits is the precision   *)
(* of an f64.                                                              *)
(***************************************************************************)
MaxChannel == 50
MaxMinor == 4
MaxShift == 1
MantissaBits == 53

(***************************************************************************)
(* Bounds of the image driver: the size of the output grid.                *)
(***************************************************************************)
MaxWidth == 3
MaxHeight == 2

(***************************************************************************)
(* f64 values that matter to the control flow.  A distance is a natural    *)
(* number below F64_MAX, or NaN; every comparison with NaN is false.       *)
(***************************************************************************)
NaN == -1
F64_MAX == MaxDist + 1
Lt(a, b) == a # NaN /\ b # NaN /\ a < b
Gt(a, b) == a # NaN /\ b # NaN /\ a > b

\* Option<f64>
None == [some |-> FALSE, d |-> 0]
Some(x) == [some |-> TRUE, d |-> x]
Distances == 0 .. MaxDist
Hits == {None} \cup {Some(x) : x \in Distances \cup {NaN}}

(***************************************************************************)
(* Vector: the operations cast_ray uses on colours.                        *)
(***************************************************************************)
add(a, b) == <<a[1] + b[1], a[2] + b[2], a[3] + b[3]>>
scale(a, k) == <<a[1] * k, a[2] * k, a[3] * k>>

(***************************************************************************)
(* Scene::intersect: the linear scan.  hits[i] is what objects[i]          *)
(* .intersect(ray) returns; the result is (min_dist, hit_object), with     *)
(* hit_object 0 for Option::None and i for Some(objects[i]).               *)
(***************************************************************************)
\* scene.rs:56  if distance < min_dist
ScanLess(distance, min_dist) == Lt(distance, min_dist)

RECURSIVE ScanFrom(_, _, _, _)
ScanFrom(hits, i, min_dist, hit_object) ==
    IF i > Len(hits) THEN [min_dist |-> min_dist, hit_object |-> hit_object]
    ELSE IF hits[i].some /\ ScanLess(hits[i].d, min_dist)
         THEN ScanFrom(hits, i + 1, hits[i].d, i)
         ELSE ScanFrom(hits, i + 1, min_dist, hit_object)

SceneIntersect(hits) == ScanFrom(hits, 1, F64_MAX, 0)

\* What Scene::intersect can return in a scene of n objects, over every ray.
ScanResults(n) == {SceneIntersect(hits) : hits \in [1 .. n -> Hits]}

(***************************************************************************)
(* The scene: materials, objects (each object is represented by its       *)
(* material), lights and the flat environment colour.  Colours and         *)
(* coefficients are integers.                                              *)
(***************************************************************************)
Materials ==
    << [diffuse_color |-> <<4, 4, 3>>, albedo_diffuse |-> 1, albedo_specular |-> 1,
        albedo_reflect |-> 1, albedo_refract |-> 0],
       [diffuse_color |-> <<6, 7, 8>>, albedo_diffuse |-> 0, albedo_specular |-> 1,
        albedo_reflect |-> 1, albedo_refract |-> 1] >>

MaterialOf(i) == Materials[((i - 1) % Len(Materials)) + 1]

Scenes ==
    { [objects |-> [i \in 1 .. n |-> MaterialOf(i)],
       lights |-> [j \in 1 .. m |-> [intensity |-> j]],
       environment_color |-> <<2, 7, 8>>] : n \in 0 .. MaxObjects, m \in 0 .. MaxLights }

Depths == -1 .. MaxDepth

(***************************************************************************)
(* One activation of cast_ray: its depth argument, its position, its       *)
(* locals, and two counters: the Scene::intersect calls and the recursive  *)
(* cast_ray calls this activation has made.  The locals of the light loop  *)
(* body live for one iteration.  point = ray.extend(min_dist) and normal   *)
(* are geometry, and are not kept.                                         *)
(***************************************************************************)
Frame(depth) ==
    [depth |-> depth, pc |-> "enter", hit_object |-> 0,
     light |-> 1, diffuse_intensity |-> 0, specular_intensity |-> 0,
     light_distance |-> 0, shadow_distance |-> 0, shadow_obstacle |-> 0,
     reflect_color |-> <<0, 0, 0>>, refract_color |-> <<0, 0, 0>>,
     tests |-> 0, calls |-> 0]

NoCall == [depth |-> 0, color |-> <<0, 0, 0>>, tests |-> 0, calls |-> 0,
           hit |-> FALSE, valid |-> FALSE]

Top == stack[Len(stack)]
Rest == SubSeq(stack, 1, Len(stack) - 1)
SetTop(f) == [stack EXCEPT ![Len(stack)] = f]

\* Mutant: the guard lets depth 0 through.
DepthGuardGe(depth) == depth >= 0

\* scene.rs:67  if depth > 0
DepthGuard(depth) == depth > 0

\* Mutant: the fall-through returns black instead of the environment.
EnvironmentBlack == <<0, 0, 0>>

\* scene.rs:122  the fall-through value: self.environment_color
EnvironmentSample == scene.environment_color

\* Mutant: the recursive call forgets to decrement.
ChildDepthSame(depth) == depth

\* scene.rs:106 and 114  the depth handed to a recursive call
ChildDepth(depth) == depth - 1

\* Mutant: an obstacle exactly at the light's distance does not occlude.
UnoccludedGe(shadow_obstacle, shadow_distance, light_distance) ==
    shadow_obstacle = 0 \/ shadow_distance >= light_distance

\* scene.rs:90  if shadow_obstacle.is_none() || shadow_distance > light_distance
Unoccluded(shadow_obstacle, shadow_distance, light_distance) ==
    shadow_obstacle = 0 \/ Gt(shadow_distance, light_distance)

(***************************************************************************)
(* Return a colour from the top activation: the frame is popped and its    *)
(* caller, if any, scales the colour into reflect_color (scene.rs:106) or  *)
(* refract_color (scene.rs:114) and goes on.  last records the call that   *)
(* returned in the step just taken.                                        *)
(***************************************************************************)
Return(f, color, hit) ==
    /\ last' = [depth |-> f.depth, color |-> color, tests |-> f.tests,
                calls |-> f.calls, hit |-> hit, valid |-> TRUE]
    /\ IF Len(stack) = 1
       THEN stack' = <<>>
       ELSE LET caller == stack[Len(stack) - 1]
                material == scene.objects[caller.hit_object]
            IN  IF caller.pc = "reflect_call"
                THEN stack' = [Rest EXCEPT ![Len(stack) - 1] =
                         [caller EXCEPT !.reflect_color = scale(color, material.albedo_reflect),
                                        !.pc = "refract"]]
                ELSE stack' = [Rest EXCEPT ![Len(stack) - 1] =
                         [caller EXCEPT !.refract_color = scale(color, material.albedo_refract),
                                        !.pc = "finish"]]

Init ==
    /\ scene \in Scenes
    /\ primary \in Depths
    /\ stack = <<Frame(primary)>>
    /\ last = NoCall
    /\ probe = Idle /\ sph = Idle /\ tone = Idle /\ img = Idle /\ rfr = Idle /\ rays = Idle

(***************************************************************************)
(* scene.rs:67-75 and 122.  Entry of cast_ray: with depth > 0 the scene is *)
(* intersected; a hit starts the shading, no hit (or depth <= 0) returns   *)
(* the environment colour.                                                 *)
(***************************************************************************)
Enter ==
    /\ stack # <<>>
    /\ Top.pc = "enter"
    /\ IF DepthGuard(Top.depth)
       THEN \E r \in ScanResults(Len(scene.objects)) :
              LET f == [Top EXCEPT !.tests = @ + 1]
              IN  IF r.hit_object # 0
                  THEN /\ stack' = SetTop([f EXCEPT !.hit_object = r.hit_object,
                                                    !.pc = IF Len(scene.lights) > 0
                                                           THEN "shadow" ELSE "reflect"])
                       /\ last' = NoCall
                  ELSE Return(f, EnvironmentSample, FALSE)
       ELSE Return(Top, EnvironmentSample, FALSE)
    /\ UNCHANGED <<scene, primary, probe, sph, tone, img, rfr, rays>>
(***************************************************************************)
(* scene.rs:80-89.  One light of the loop: light_direction and             *)
(* light_distance are computed and the shadow ray is intersected with the  *)
(* scene.                                                                  *)
(***************************************************************************)
Shadow ==
    /\ stack # <<>>
    /\ Top.pc = "shadow"
    /\ \E r \in ScanResults(Len(scene.objects)), light_distance \in Distances :
              stack' = SetTop([Top EXCEPT !.light_distance = light_distance,
                                          !.shadow_distance = r.min_dist,
                                          !.shadow_obstacle = r.hit_object,
                                          !.tests = @ + 1,
                                          !.pc = "accumulate"])
    /\ last' = NoCall
    /\ UNCHANGED <<scene, primary, probe, sph, tone, img, rfr, rays>>

(***************************************************************************)
(* scene.rs:90-96.  The light contributes unless it is occluded; then the  *)
(* loop goes to the next light, or on to the reflection.  lambert is       *)
(* light_direction.dot(&normal).max(0.0) and specularity the Phong term of *)
(* line 93, both fixed by the geometry.                                    *)
(***************************************************************************)
Accumulate ==
    /\ stack # <<>>
    /\ Top.pc = "accumulate"
    /\ \E lambert \in 0 .. 1, specularity \in 0 .. 1 :
       LET light == scene.lights[Top.light]
           lit == Unoccluded(Top.shadow_obstacle, Top.shadow_distance, Top.light_distance)
           f == IF lit
                THEN [Top EXCEPT !.diffuse_intensity = @ + light.intensity * lambert,
                                 !.specular_intensity = @ + specularity * light.intensity]
                ELSE Top
       IN  stack' = SetTop([f EXCEPT !.light = @ + 1,
                                     !.light_distance = 0, !.shadow_distance = 0,
                                     !.shadow_obstacle = 0,
                                     !.pc = IF Top.light < Len(scene.lights)
                                            THEN "shadow" ELSE "reflect"])
    /\ last' = NoCall
    /\ UNCHANGED <<scene, primary, probe, sph, tone, img, rfr, rays>>

(***************************************************************************)
(* scene.rs:101-106.  The reflection ray is cast with depth - 1.           *)
(***************************************************************************)
Reflect ==
    /\ stack # <<>>
    /\ Top.pc = "reflect"
    /\ stack' = Append(SetTop([Top EXCEPT !.pc = "reflect_call", !.calls = @ + 1]),
                       Frame(ChildDepth(Top.depth)))
    /\ last' = NoCall
    /\ UNCHANGED <<scene, primary, probe, sph, tone, img, rfr, rays>>

(***************************************************************************)
(* scene.rs:109-114.  The refraction ray is cast with depth - 1.           *)
(***************************************************************************)
Refract ==
    /\ stack # <<>>
    /\ Top.pc = "refract"
    /\ stack' = Append(SetTop([Top EXCEPT !.pc = "refract_call", !.calls = @ + 1]),
                       Frame(ChildDepth(Top.depth)))
    /\ last' = NoCall
    /\ UNCHANGED <<scene, primary, probe, sph, tone, img, rfr, rays>>

(***************************************************************************)
(* scene.rs:97-98 and 117.  The lit colour is returned.                    *)
(***************************************************************************)
Finish ==
    /\ stack # <<>>
    /\ Top.pc = "finish"
    /\ LET material == scene.objects[Top.hit_object]
           diffuse_color == scale(scale(material.diffuse_color, Top.diffuse_intensity),
                                  material.albedo_diffuse)
           specular_color == scale(scale(<<1, 1, 1>>, Top.specular_intensity),
                                   material.albedo_specular)
       IN  Return(Top, add(add(add(diffuse_color, specular_color), Top.reflect_color),
                           Top.refract_color), TRUE)
    /\ UNCHANGED <<scene, primary, probe, sph, tone, img, rfr, rays>>

Next == Enter \/ Shadow \/ Accumulate \/ Reflect \/ Refract \/ Finish

Spec == Init /\ [][Next]_vars

\* cast_ray runs on its caller's stack: a call that can take a step takes it.
FairSpec == Spec /\ WF_vars(Next)
(***************************************************************************)
(* C1.  cast_ray(ray, 0) returns the scene's environment sample and runs   *)
(* no intersection test, whatever the ray would hit: every call of depth 0 *)
(* that returns, returns environment_color having made no Scene::intersect *)
(* call.                                                                   *)
(***************************************************************************)
C1_DepthZeroIsEnvironment ==
    (last.valid /\ last.depth = 0) =>
        /\ last.color = scene.environment_color
        /\ last.tests = 0
        /\ last.calls = 0

\* A secondary ray of depth 0 has returned to a caller whose own ray hit.
C1_Witness == last.valid /\ last.depth = 0 /\ stack # <<>> /\ Len(scene.objects) > 0

(***************************************************************************)
(* C2.  With depth > 0, a ray for which Scene::intersect finds no          *)
(* primitive returns exactly the environment sample: the only scene test   *)
(* is the ray's own (no shadow ray, so no light term) and no recursive     *)
(* call is made.                                                           *)
(***************************************************************************)
C2_NoHitIsEnvironment ==
    (last.valid /\ last.depth > 0 /\ ~last.hit) =>
        /\ last.color = scene.environment_color
        /\ last.tests = 1
        /\ last.calls = 0

\* A ray of depth > 0 missed every object of a scene that has objects and lights.
C2_Witness ==
    /\ last.valid /\ last.depth > 0 /\ ~last.hit
    /\ Len(scene.objects) > 0 /\ Len(scene.lights) > 0

(***************************************************************************)
(* C6.  In the light loop, a light whose shadow ray hits a primitive at a  *)
(* distance not exceeding the light's distance adds nothing to             *)
(* diffuse_intensity and nothing to specular_intensity.                    *)
(***************************************************************************)
Occluded(f) ==
    /\ f.pc = "accumulate"
    /\ f.shadow_obstacle # 0
    /\ f.shadow_distance # NaN
    /\ f.shadow_distance <= f.light_distance

C6_OccludedLightAddsNothing ==
    [][(stack # <<>> /\ Occluded(Top)) =>
          /\ Len(stack') = Len(stack)
          /\ stack'[Len(stack)].diffuse_intensity = Top.diffuse_intensity
          /\ stack'[Len(stack)].specular_intensity = Top.specular_intensity]_vars

\* A shadow ray has hit an obstacle in front of the light.
C6_Witness == stack # <<>> /\ Occluded(Top)

(***************************************************************************)
(* C10.  cast_ray terminates: every recursive call is made with depth - 1, *)
(* an activation with depth <= 0 makes no call, the nesting below the      *)
(* primary call never exceeds its depth argument, and the primary call     *)
(* returns: until it has, a step can be taken, and every step lowers a     *)
(* measure that is never negative.                                         *)
(***************************************************************************)
Nesting == Len(stack) - 1

DepthDiscipline ==
    /\ \A i \in 2 .. Len(stack) : stack[i].depth = stack[i - 1].depth - 1
    /\ \A i \in 1 .. Len(stack) - 1 : stack[i].depth > 0
    /\ Nesting <= (IF primary > 0 THEN primary ELSE 0)

\* The steps a call of depth d takes at most: its entry, two per light, the
\* two calls, its return, and the two calls' own steps.
RECURSIVE Cost(_)
Cost(d) == IF d <= 0 THEN 1 ELSE 4 + 2 * Len(scene.lights) + 2 * Cost(d - 1)

\* The steps an activation has left, those of a call in progress excepted.
Remaining(f) ==
    CASE f.pc = "enter" -> Cost(f.depth)
      [] f.pc = "shadow" ->
            2 * (Len(scene.lights) - f.light + 1) + 3 + 2 * Cost(f.depth - 1)
      [] f.pc = "accumulate" ->
            2 * (Len(scene.lights) - f.light) + 4 + 2 * Cost(f.depth - 1)
      [] f.pc = "reflect" -> 3 + 2 * Cost(f.depth - 1)
      [] f.pc = "reflect_call" -> 2 + Cost(f.depth - 1)
      [] f.pc = "refract" -> 2 + Cost(f.depth - 1)
      [] f.pc = "refract_call" -> 1
      [] f.pc = "finish" -> 1

RECURSIVE SumRemaining(_)
SumRemaining(s) ==
    IF s = <<>> THEN 0 ELSE Remaining(Head(s)) + SumRemaining(Tail(s))

Measure == SumRemaining(stack)

\* The primary call has returned, or some step of cast_ray can be taken.
Progress == stack = <<>> \/ ENABLED Next

\* Taken with fairness of Next, the primary call returns.
Termination == <>(stack = <<>>)

C10_BoundedRecursion ==
    /\ [](DepthDiscipline /\ Progress /\ Measure >= 0)
    /\ [][Measure' < Measure]_vars

\* The nesting has reached the depth of the primary call.
C10_Witness == primary > 0 /\ Nesting = primary
(***************************************************************************)
(* Scene::intersect on its own (scene.rs:49-64): one scan of a scene of up *)
(* to MaxScan objects, for every combination of what the objects'          *)
(* intersect returns for the ray.                                          *)
(***************************************************************************)
HitLists == UNION {[1 .. n -> Hits] : n \in 0 .. MaxScan}

ScanInit ==
    /\ probe \in {[hits |-> h, done |-> FALSE, min_dist |-> F64_MAX, hit_object |-> 0] :
                    h \in HitLists}
    /\ scene = Idle /\ primary = Idle /\ stack = Idle /\ last = Idle
    /\ sph = Idle /\ tone = Idle /\ img = Idle /\ rfr = Idle /\ rays = Idle

Scan ==
    /\ ~probe.done
    /\ LET r == SceneIntersect(probe.hits)
       IN  probe' = [probe EXCEPT !.done = TRUE, !.min_dist = r.min_dist,
                                  !.hit_object = r.hit_object]
    /\ UNCHANGED <<scene, primary, stack, last, sph, tone, img, rfr, rays>>

ScanNext == Scan

ScanSpec == ScanInit /\ [][ScanNext]_vars

\* The objects whose intersect returned Some(_) for the ray.
Hitters == {i \in 1 .. Len(probe.hits) : probe.hits[i].some}

\* The result is the nearest of the objects in `among`, the earliest of the
\* nearest, with its distance.
NearestFirst(among) ==
    /\ probe.hit_object \in among
    /\ probe.min_dist = probe.hits[probe.hit_object].d
    /\ \A i \in among : ~Lt(probe.hits[i].d, probe.min_dist)
    /\ \A i \in among : probe.hits[i].d = probe.min_dist => i >= probe.hit_object

(***************************************************************************)
(* C3.  Scene::intersect returns the minimum hit distance over the         *)
(* primitives whose intersect returns a hit, with the primitive that       *)
(* produced it, the earliest in insertion order on a tie, and returns no   *)
(* primitive exactly when no primitive's intersect returns a hit.          *)
(***************************************************************************)
C3_NearestOfAllHits ==
    probe.done =>
        /\ (probe.hit_object = 0) <=> (Hitters = {})
        /\ Hitters # {} => NearestFirst(Hitters)

\* What the scan does compute: the same, over the hits that are numbers.
NumberHitters == {i \in Hitters : probe.hits[i].d # NaN}

C3_NearestOfNumberHits ==
    probe.done =>
        /\ (probe.hit_object = 0) <=> (NumberHitters = {})
        /\ NumberHitters # {} => NearestFirst(NumberHitters)

(***************************************************************************)
(* Sphere::intersect on its own (scene.rs:152-174, primitives.rs:51-72,    *)
(* main.rs:157-179, the same text).  center, origin and radius are         *)
(* multiples of 1/Scale; direction is one of the six axis directions,      *)
(* which are unit vectors.  With these, tca is a multiple of 1/Scale, d2   *)
(* and radius * radius - d2 are multiples of 1/Scale^2, and a root         *)
(* tca -/+ sqrt(thc2) is kept as (tca, thc2, sign) and compared exactly.   *)
(***************************************************************************)
sub(a, b) == <<a[1] - b[1], a[2] - b[2], a[3] - b[3]>>
dot(a, b) == a[1] * b[1] + a[2] * b[2] + a[3] * b[3]

Coords == -MaxCoord .. MaxCoord
Axes == {<<1, 0, 0>>, <<-1, 0, 0>>, <<0, 1, 0>>, <<0, -1, 0>>, <<0, 0, 1>>, <<0, 0, -1>>}

\* tca + sign * sqrt(thc2) < 0.0, for thc2 >= 0
RootNegative(tca, thc2, sign) ==
    IF sign < 0 THEN tca < 0 \/ tca * tca < thc2
                ELSE tca < 0 /\ tca * tca > thc2

\* scene.rs:157  if d2 > self.radius  (d2 in 1/Scale^2, radius in 1/Scale)
BeyondRadius(d2, radius) == d2 > radius * Scale

NoHit == [some |-> FALSE, nan |-> FALSE, tca |-> 0, thc2 |-> 0, sign |-> 0]
HitNaN == [some |-> TRUE, nan |-> TRUE, tca |-> 0, thc2 |-> 0, sign |-> 0]
HitAt(tca, thc2, sign) == [some |-> TRUE, nan |-> FALSE, tca |-> tca, thc2 |-> thc2,
                           sign |-> sign]

SphereIntersect(center, radius, origin, direction) ==
    LET l == sub(center, origin)
        tca == dot(l, direction)
        d2 == dot(l, l) - tca * tca
        thc2 == radius * radius - d2
    IN  IF BeyondRadius(d2, radius) THEN NoHit
        ELSE IF thc2 < 0
             \* thc is NaN, and so are t0 and t1: both t0 < 0.0 are false
             THEN HitNaN
             ELSE IF ~RootNegative(tca, thc2, -1) THEN HitAt(tca, thc2, -1)
                  ELSE IF RootNegative(tca, thc2, 1) THEN NoHit
                       ELSE HitAt(tca, thc2, 1)

SphereInit ==
    /\ sph \in {[center |-> c, radius |-> r, origin |-> <<0, 0, 0>>, direction |-> dir,
                 done |-> FALSE, result |-> NoHit] :
                  c \in Coords \X Coords \X Coords, r \in 1 .. MaxRadius, dir \in Axes}
    /\ scene = Idle /\ primary = Idle /\ stack = Idle /\ last = Idle
    /\ probe = Idle /\ tone = Idle /\ img = Idle /\ rfr = Idle /\ rays = Idle

SphereTest ==
    /\ ~sph.done
    /\ sph' = [sph EXCEPT !.done = TRUE,
                  !.result = SphereIntersect(sph.center, sph.radius, sph.origin,
                                             sph.direction)]
    /\ UNCHANGED <<scene, primary, stack, last, probe, tone, img, rfr, rays>>

SphereNext == SphereTest

SphereSpec == SphereInit /\ [][SphereNext]_vars

\* The quantities of the claims, from the sphere and the ray.
SphL == sub(sph.center, sph.origin)
SphTca == dot(SphL, sph.direction)
SphD2 == dot(SphL, SphL) - SphTca * SphTca
SphRadius2 == sph.radius * sph.radius

(***************************************************************************)
(* C4.  When d2 <= radius^2 and tca + thc >= 0, Sphere::intersect returns  *)
(* a hit at the smallest non-negative root: t0 = tca - thc when t0 >= 0,   *)
(* otherwise t1 = tca + thc.                                               *)
(***************************************************************************)
C4_SmallestNonNegativeRoot ==
    (sph.done /\ SphD2 <= SphRadius2 /\ ~RootNegative(SphTca, SphRadius2 - SphD2, 1)) =>
        sph.result = HitAt(SphTca, SphRadius2 - SphD2,
                           IF RootNegative(SphTca, SphRadius2 - SphD2, -1) THEN 1 ELSE -1)

(***************************************************************************)
(* C5.  When d2 > radius^2 Sphere::intersect returns no hit: never a hit   *)
(* value, the square root of a negative number included.                   *)
(***************************************************************************)
C5_MissIsNoHit ==
    (sph.done /\ SphD2 > SphRadius2) => ~sph.result.some
(***************************************************************************)
(* Vector::refract on its own (geometry.rs:62-85, main.rs:101-122).  The   *)
(* vectors are unit vectors in units of 1/Norm, so a dot product is in     *)
(* units of 1/Norm^2; a refractive index is a fraction <<p, q>> = p / q.   *)
(* The locals at the return are kept: cosi, etai, etat, n, and whether     *)
(* k < 0.0 (then the fixed vector (1, 0, 0) is returned).  The transmitted *)
(* direction itself needs sqrt(k) and is not computed.                     *)
(***************************************************************************)
Components == -Norm .. Norm
UnitVectors == {v \in Components \X Components \X Components : dot(v, v) = Norm * Norm}
Indices == {<<p, q>> : p \in 1 .. MaxIndex, q \in 1 .. MaxIndex}

Min(a, b) == IF a < b THEN a ELSE b
Max(a, b) == IF a > b THEN a ELSE b

\* geometry.rs:67  if cosi < 0.0
RefractSwaps(cosi) == cosi < 0

refract(v, normal, refractive_index) ==
    LET one == Norm * Norm
        cosi0 == Max(Min(dot(v, normal), one), -one)
        swap == RefractSwaps(cosi0)
        cosi == IF swap THEN -cosi0 ELSE cosi0
        etai == IF swap THEN refractive_index ELSE <<1, 1>>
        etat == IF swap THEN <<1, 1>> ELSE refractive_index
        n == IF swap THEN scale(normal, -1) ELSE normal
        \* eta = etai / etat = a / b
        a == etai[1] * etat[2]
        b == etai[2] * etat[1]
        \* k = 1 - eta * eta * (1 - cosi * cosi) < 0
        tir == a * a * (one * one - cosi * cosi) > b * b * one * one
    IN  [cosi |-> cosi, etai |-> etai, etat |-> etat, n |-> n, tir |-> tir]

RefractInit ==
    /\ rfr \in {[v |-> v, normal |-> n, refractive_index |-> x, done |-> FALSE,
                 out |-> [cosi |-> 0, etai |-> <<1, 1>>, etat |-> x, n |-> n, tir |-> FALSE]] :
                  v \in UnitVectors, n \in UnitVectors, x \in Indices}
    /\ scene = Idle /\ primary = Idle /\ stack = Idle /\ last = Idle
    /\ probe = Idle /\ sph = Idle /\ tone = Idle /\ img = Idle /\ rays = Idle

RefractCall ==
    /\ ~rfr.done
    /\ rfr' = [rfr EXCEPT !.done = TRUE,
                          !.out = refract(rfr.v, rfr.normal, rfr.refractive_index)]
    /\ UNCHANGED <<scene, primary, stack, last, probe, sph, tone, img, rays>>

RefractNext == RefractCall

RefractSpec == RefractInit /\ [][RefractNext]_vars

(***************************************************************************)
(* C9.  In refract, when cosi = clamp(dot(v, n), -1, 1) < 0 the ray is     *)
(* entering the medium: eta_i = 1, eta_t and the normal are used as given, *)
(* with no swap and no flip.                                               *)
(***************************************************************************)
C9_EnteringKeepsIndices ==
    (rfr.done /\ dot(rfr.v, rfr.normal) < 0) =>
        /\ rfr.out.etai = <<1, 1>>
        /\ rfr.out.etat = rfr.refractive_index
        /\ rfr.out.n = rfr.normal
(***************************************************************************)
(* f64 arithmetic, exactly, for the values the tone-mapping meets.  A      *)
(* positive f64 is m * 2^(exp - MantissaBits + 1) with a mantissa          *)
(* 2^(MantissaBits-1) <= m < 2^MantissaBits, kept as three limbs           *)
(* <<top, mid, low>>, m = (top * Limb + mid) * Limb + low, since m itself  *)
(* is beyond the integers of the checker.  Rounding is to nearest, ties to *)
(* even.  Exponents stay far inside the f64 range.                         *)
(***************************************************************************)
RECURSIVE Pow2(_)
Pow2(n) == IF n = 0 THEN 1 ELSE 2 * Pow2(n - 1)

RECURSIVE FloorLog2(_)
FloorLog2(k) == IF k < 2 THEN 0 ELSE 1 + FloorLog2(k \div 2)

LimbBits == (MantissaBits + 2) \div 3
TopBits == MantissaBits - 2 * LimbBits
Limb == Pow2(LimbBits)
TopOne == Pow2(TopBits - 1)

FZero == [zero |-> TRUE, m |-> <<0, 0, 0>>, exp |-> 0]
F(m, exp) == [zero |-> FALSE, m |-> m, exp |-> exp]
FOne == F(<<TopOne, 0, 0>>, 0)
\* The largest f64 below 1.0
FBelowOne == F(<<2 * TopOne - 1, Limb - 1, Limb - 1>>, -1)

\* m + 1, renormalised when it reaches 2^MantissaBits.
Increment(m, exp) ==
    IF m[3] + 1 < Limb THEN F(<<m[1], m[2], m[3] + 1>>, exp)
    ELSE IF m[2] + 1 < Limb THEN F(<<m[1], m[2] + 1, 0>>, exp)
    ELSE IF m[1] + 1 < 2 * TopOne THEN F(<<m[1] + 1, 0, 0>>, exp)
    ELSE F(<<TopOne, 0, 0>>, exp + 1)

\* Round m plus a fraction rest / whole (0 <= rest < whole) to nearest, ties to even.
Round(m, exp, rest, whole) ==
    IF 2 * rest > whole \/ (2 * rest = whole /\ m[3] % 2 = 1)
    THEN Increment(m, exp)
    ELSE F(m, exp)

\* k / 2^shift as an f64: exact, for 1 <= k < 2^TopBits.
ToF64(k, shift) ==
    IF k = 0 THEN FZero
    ELSE F(<<k * Pow2(TopBits - 1 - FloorLog2(k)), 0, 0>>, FloorLog2(k) - shift)

\* 1.0 / (k / 2^shift), for k >= 1: the long division of 2^(fl + MantissaBits) by k,
\* a limb at a time.
Reciprocal(k, shift) ==
    LET fl == FloorLog2(k)
        n1 == Pow2(fl + TopBits)
        n2 == (n1 % k) * Limb
        n3 == (n2 % k) * Limb
    IN  IF k = Pow2(fl) THEN F(<<TopOne, 0, 0>>, shift - fl)
        ELSE Round(<<n1 \div k, n2 \div k, n3 \div k>>, shift - fl - 1, n3 % k, k)

\* (c / 2^shift) * f, for a natural number c < 2^(31 - LimbBits): the exact product,
\* a limb at a time, then shifted right by the s bits it has beyond MantissaBits.
Times(c, shift, f) ==
    IF c = 0 \/ f.zero THEN FZero
    ELSE LET p3 == c * f.m[3]
             p2 == c * f.m[2] + p3 \div Limb
             top == c * f.m[1] + p2 \div Limb
             mid == p2 % Limb
             low == p3 % Limb
             s == FloorLog2(top) - (TopBits - 1)
             w == Pow2(s)
         IN  Round(<<top \div w,
                     ((top % w) * Limb + mid) \div w,
                     ((mid % w) * Limb + low) \div w>>,
                   f.exp + s - shift, low % w, w)

\* a <= b
FLe(a, b) ==
    \/ a.zero
    \/ /\ ~b.zero
       /\ \/ a.exp < b.exp
          \/ /\ a.exp = b.exp
             /\ \/ a.m[1] < b.m[1]
                \/ a.m[1] = b.m[1] /\ a.m[2] < b.m[2]
                \/ a.m[1] = b.m[1] /\ a.m[2] = b.m[2] /\ a.m[3] <= b.m[3]

\* main.rs:381  (c * 255.0).min(255.0).max(0.0) as u8, for c >= 0
Quantize(f) ==
    LET p == Times(255, 0, f)
    IN  IF p.zero \/ p.exp < 0 THEN 0
        ELSE IF p.exp >= 8 THEN 255
        ELSE p.m[1] \div Pow2(TopBits - 1 - p.exp)

(***************************************************************************)
(* The colour of one pixel, from cast_ray's colour to the RGB bytes        *)
(* (main.rs:374-384): the tone-mapping and the quantisation.               *)
(***************************************************************************)
\* Mutant: the third channel is left out of the maximum.
MaxOfTwo(color) == Max(color[1], color[2])

\* main.rs:375  color.x.max(color.y.max(color.z))
MaxOfColor(color) == Max(color[1], Max(color[2], color[3]))

\* main.rs:376  if max > 1.0  (max = k / 2^shift)
ExceedsOne(k, shift) == k > Pow2(shift)

\* main.rs:375-378
ToneMap(color, shift) ==
    LET max == MaxOfColor(color)
    IN  IF ExceedsOne(max, shift)
        THEN LET factor == Reciprocal(max, shift)
             IN  [c \in 1 .. 3 |-> Times(color[c], shift, factor)]
        ELSE [c \in 1 .. 3 |-> ToF64(color[c], shift)]

ToneInit ==
    /\ tone \in {[color |-> <<x, y, z>>, shift |-> e, done |-> FALSE,
                  out |-> <<FZero, FZero, FZero>>, rgb |-> <<0, 0, 0>>] :
                   x \in 0 .. MaxChannel, y \in 0 .. MaxMinor, z \in 0 .. MaxMinor,
                   e \in 0 .. MaxShift}
    /\ scene = Idle /\ primary = Idle /\ stack = Idle /\ last = Idle
    /\ probe = Idle /\ sph = Idle /\ img = Idle /\ rfr = Idle /\ rays = Idle

Tone ==
    /\ ~tone.done
    /\ LET out == ToneMap(tone.color, tone.shift)
       IN  tone' = [tone EXCEPT !.done = TRUE, !.out = out,
                                !.rgb = [c \in 1 .. 3 |-> Quantize(out[c])]]
    /\ UNCHANGED <<scene, primary, stack, last, probe, sph, img, rfr, rays>>

ToneNext == Tone

ToneSpec == ToneInit /\ [][ToneNext]_vars

\* The channels that hold the maximum of the colour, and that maximum.
Brightest == {c \in 1 .. 3 : \A b \in 1 .. 3 : tone.color[b] <= tone.color[c]}
ToneMax == tone.color[CHOOSE c \in Brightest : TRUE]
IsPowerOfTwo(k) == k = Pow2(FloorLog2(k))

(***************************************************************************)
(* C7 as stated.  For every colour whose maximum channel exceeds 1.0 the   *)
(* channels are multiplied by 1 / max, so the maximum channel becomes      *)
(* exactly 1.0; a colour whose maximum is at most 1.0 is left unchanged.   *)
(***************************************************************************)
C7_MaxBecomesExactlyOne ==
    tone.done =>
        IF ToneMax > Pow2(tone.shift)
        THEN \A c \in Brightest : tone.out[c] = FOne
        ELSE \A c \in 1 .. 3 : tone.out[c] = ToF64(tone.color[c], tone.shift)

(***************************************************************************)
(* C7 as amended.  For every colour whose maximum channel exceeds 1.0 the  *)
(* maximum channel becomes 1.0 or the largest f64 below 1.0, and no        *)
(* channel ends above it; when the maximum is a power of two every channel *)
(* becomes exactly channel / max, so (2.0, 1.0, 0.5) becomes               *)
(* (1.0, 0.5, 0.25).  A colour whose maximum is at most 1.0 is unchanged.  *)
(***************************************************************************)
C7_MaxBecomesOneOrJustBelow ==
    tone.done =>
        IF ToneMax > Pow2(tone.shift)
        THEN /\ \A c \in Brightest : tone.out[c] \in {FOne, FBelowOne}
             /\ \A c \in 1 .. 3 : \A b \in Brightest : FLe(tone.out[c], tone.out[b])
             /\ IsPowerOfTwo(ToneMax) =>
                   \A c \in 1 .. 3 : tone.out[c] = ToF64(tone.color[c], FloorLog2(ToneMax))
        ELSE \A c \in 1 .. 3 : tone.out[c] = ToF64(tone.color[c], tone.shift)

\* (2.0, 1.0, 0.5) has become (1.0, 0.5, 0.25).
C7_Witness ==
    /\ tone.done /\ tone.color = <<4, 2, 1>> /\ tone.shift = 1
    /\ tone.out = <<FOne, ToF64(1, 1), ToF64(1, 2)>>
    /\ tone.rgb = <<255, 127, 63>>
(***************************************************************************)
(* The image driver.  main.rs:365-385 builds the image with one call of    *)
(* the closure per pixel; the workers that run these units of work in      *)
(* parallel, the pre-sized row-major buffer they write and the driver's    *)
(* wait for them are those of the design (sections 4.6 and 5).  A unit of  *)
(* work is a pixel <<x, y>>; its result is a function of its camera ray    *)
(* alone, the scene being immutable, and is represented by that ray.       *)
(***************************************************************************)
\* main.rs:368-370  the camera ray of pixel (x, y): the numerators of fx and fy
CameraRay(x, y, width, height) == <<2 * x + 1 - width, 2 * (height - y) + 1 - height>>

\* main.rs:365-384  the closure: the colour of pixel (x, y)
PixelColor(x, y, width, height) == [ray |-> CameraRay(x, y, width, height)]

\* Mutant: the row offset is left out of the slot index.
SlotNoRow(x, y, width) == x + y

\* The slot of pixel (x, y) in the row-major buffer
SlotOf(x, y, width) == y * width + x

Pixels(width, height) == (0 .. width - 1) \X (0 .. height - 1)

Empty == [ray |-> <<>>]

RenderInit ==
    /\ img \in {[width |-> w, height |-> h,
                 buffer |-> [k \in 0 .. w * h - 1 |-> Empty],
                 writers |-> [k \in 0 .. w * h - 1 |-> <<>>],
                 pending |-> Pixels(w, h), running |-> {},
                 returned |-> FALSE] :
                  w \in 1 .. MaxWidth, h \in 1 .. MaxHeight}
    /\ scene = Idle /\ primary = Idle /\ stack = Idle /\ last = Idle
    /\ probe = Idle /\ sph = Idle /\ tone = Idle /\ rfr = Idle /\ rays = Idle

\* A worker takes a unit of work.
StartPixel ==
    /\ \E p \in img.pending :
          img' = [img EXCEPT !.pending = @ \ {p}, !.running = @ \cup {p}]
    /\ UNCHANGED <<scene, primary, stack, last, probe, sph, tone, rfr, rays>>

\* A worker completes its unit of work: the colour goes into the pixel's slot.
FinishPixel ==
    /\ \E p \in img.running :
          LET k == SlotOf(p[1], p[2], img.width)
          IN  img' = [img EXCEPT !.running = @ \ {p},
                                 !.buffer[k] = PixelColor(p[1], p[2], img.width, img.height),
                                 !.writers[k] = Append(@, p)]
    /\ UNCHANGED <<scene, primary, stack, last, probe, sph, tone, rfr, rays>>

\* The driver has waited for every worker and returns the image.
ReturnImage ==
    /\ ~img.returned
    /\ img.pending = {} /\ img.running = {}
    /\ img' = [img EXCEPT !.returned = TRUE]
    /\ UNCHANGED <<scene, primary, stack, last, probe, sph, tone, rfr, rays>>

RenderNext == StartPixel \/ FinishPixel \/ ReturnImage

RenderSpec == RenderInit /\ [][RenderNext]_vars

(***************************************************************************)
(* C8.  For every interleaving of the workers, each slot of the grid is    *)
(* written at most once, and only by the unit of work of its own pixel;    *)
(* once the driver has returned, every unit of work has completed, every   *)
(* slot has been written exactly once and holds the colour computed for    *)
(* its pixel, which does not depend on the schedule.                       *)
(***************************************************************************)
C8_DisjointSlotsCompleteImage ==
    /\ \A k \in DOMAIN img.writers :
          /\ Len(img.writers[k]) <= 1
          /\ \A i \in 1 .. Len(img.writers[k]) :
                img.writers[k][i][2] * img.width + img.writers[k][i][1] = k
    /\ img.returned =>
          /\ img.pending = {} /\ img.running = {}
          /\ \A p \in Pixels(img.width, img.height) :
                /\ img.writers[p[2] * img.width + p[1]] = <<p>>
                /\ img.buffer[p[2] * img.width + p[1]] =
                      PixelColor(p[1], p[2], img.width, img.height)

\* The image of a grid of several rows and columns has been returned.
C8_Witness == img.returned /\ img.width > 1 /\ img.height > 1

(***************************************************************************)
(* The call tree of one primary cast_ray call at the default depth.        *)
(* main.rs:372 casts every primary ray with depth 6.  An activation is     *)
(* kept as its depth argument, its position and the number of recursive    *)
(* calls it has made; the shading between the hit and the reflection       *)
(* (scene.rs:72-98) makes no cast_ray call and is part of the hit step.    *)
(* Whether a ray hits is fixed by the scene and is left open here.         *)
(* secondary counts every cast_ray invocation but the primary one, hits    *)
(* the activations that found a primitive.                                 *)
(***************************************************************************)

\* main.rs:372  scene.cast_ray(&Ray { .. }, 6)
DefaultDepth == 6

RayFrame(depth) == [depth |-> depth, pc |-> "enter", calls |-> 0]

RayTop == rays.stack[Len(rays.stack)]

\* The callee returns: its caller goes on after the call it was waiting in.
RayReturn ==
    IF Len(rays.stack) = 1
    THEN <<>>
    ELSE LET n == Len(rays.stack) - 1
             caller == rays.stack[n]
         IN  [SubSeq(rays.stack, 1, n) EXCEPT ![n] =
                 [caller EXCEPT !.pc = IF caller.pc = "reflect_call"
                                       THEN "refract" ELSE "finish"]]

RayInit ==
    /\ rays = [stack |-> <<RayFrame(DefaultDepth)>>, secondary |-> 0, hits |-> 0]
    /\ scene = Idle /\ primary = Idle /\ stack = Idle /\ last = Idle
    /\ probe = Idle /\ sph = Idle /\ tone = Idle /\ img = Idle /\ rfr = Idle

\* scene.rs:67-98 and 122: with depth > 0 the scene is intersected; a hit
\* is shaded, anything else returns the environment colour.
RayEnter ==
    /\ rays.stack # <<>>
    /\ RayTop.pc = "enter"
    /\ IF DepthGuard(RayTop.depth)
       THEN \E hit \in BOOLEAN :
              IF hit
              THEN rays' = [rays EXCEPT !.stack[Len(rays.stack)].pc = "reflect",
                                        !.hits = @ + 1]
              ELSE rays' = [rays EXCEPT !.stack = RayReturn]
       ELSE rays' = [rays EXCEPT !.stack = RayReturn]
    /\ UNCHANGED <<scene, primary, stack, last, probe, sph, tone, img, rfr>>

\* scene.rs:101-106: the reflection ray is cast with depth - 1.
RayReflect ==
    /\ rays.stack # <<>>
    /\ RayTop.pc = "reflect"
    /\ rays' = [rays EXCEPT
                  !.stack = Append([rays.stack EXCEPT ![Len(rays.stack)] =
                                       [RayTop EXCEPT !.pc = "reflect_call",
                                                      !.calls = @ + 1]],
                                   RayFrame(ChildDepth(RayTop.depth))),
                  !.secondary = @ + 1]
    /\ UNCHANGED <<scene, primary, stack, last, probe, sph, tone, img, rfr>>

\* scene.rs:109-114: the refraction ray is cast with depth - 1.
RayRefract ==
    /\ rays.stack # <<>>
    /\ RayTop.pc = "refract"
    /\ rays' = [rays EXCEPT
                  !.stack = Append([rays.stack EXCEPT ![Len(rays.stack)] =
                                       [RayTop EXCEPT !.pc = "refract_call",
                                                      !.calls = @ + 1]],
                                   RayFrame(ChildDepth(RayTop.depth))),
                  !.secondary = @ + 1]
    /\ UNCHANGED <<scene, primary, stack, last, probe, sph, tone, img, rfr>>

\* scene.rs:117: the lit colour is returned.
RayFinish ==
    /\ rays.stack # <<>>
    /\ RayTop.pc = "finish"
    /\ rays' = [rays EXCEPT !.stack = RayReturn]
    /\ UNCHANGED <<scene, primary, stack, last, probe, sph, tone, img, rfr>>

RayNext == RayEnter \/ RayReflect \/ RayRefract \/ RayFinish

RaySpec == RayInit /\ [][RayNext]_vars

\* Every activation that found a hit makes exactly two recursive calls
\* before it returns, and no other activation makes any.
TwoCallsPerHit ==
    /\ \A i \in 1 .. Len(rays.stack) :
          rays.stack[i].calls =
             CASE rays.stack[i].pc \in {"enter", "reflect"} -> 0
               [] rays.stack[i].pc \in {"reflect_call", "refract"} -> 1
               [] OTHER -> 2
    /\ rays.stack = <<>> => rays.secondary = 2 * rays.hits

(***************************************************************************)
(* C11 as stated.  A primary cast_ray call with the default depth 6 causes *)
(* at most 64 secondary (reflection plus refraction) cast_ray invocations  *)
(* in total, whatever the scene, each hit spawning exactly two recursive   *)
(* calls.                                                                  *)
(***************************************************************************)
C11_AtMost64Secondary ==
    /\ rays.secondary <= Pow2(DefaultDepth)
    /\ TwoCallsPerHit

(***************************************************************************)
(* C11, amended.  A primary cast_ray call with the default depth 6 causes  *)
(* at most 2 + 4 + ... + 64 = 126 secondary cast_ray invocations in total, *)
(* whatever the scene: each hit spawns exactly two recursive calls, and    *)
(* the calls of the last level, with depth 0, are invocations too.  At     *)
(* most 64 of the secondary invocations have depth 0, and at most 63       *)
(* activations, the primary one included, find a hit.                      *)
(***************************************************************************)
C11_AtMost126Secondary ==
    /\ rays.secondary <= Pow2(DefaultDepth + 1) - 2
    /\ rays.hits <= Pow2(DefaultDepth) - 1
    /\ TwoCallsPerHit

\* The primary call has returned after every ray of its call tree hit.
C11_Witness ==
    /\ rays.stack = <<>>
    /\ rays.secondary = Pow2(DefaultDepth + 1) - 2
    /\ rays.hits = Pow2(DefaultDepth) - 1
====
